---- MODULE Spec2Model ----
(***************************************************************************)
(* Reconciliation state machine of the DrupalSite operator                 *)
(* (controllers/drupalsite_controller.go, controllers/drupalsite_          *)
(* resources.go and the status helpers).                                   *)
(*                                                                         *)
(* One reconcile pass (Reconcile) is one atomic action: passes for one     *)
(* Site are serialized and every call inside a pass is blocking.  What an  *)
(* external collaborator answers inside a pass (API errors, exec results,  *)
(* pod phases, a concurrent edit of the Site that makes the pass's write   *)
(* conflict) is drawn with \E at the call site that consumes it.           *)
(***************************************************************************)
EXTENDS Integers, Sequences, FiniteSets, TLC

\* ------------------------------------------------------------------ bounds
MaxRelease == 2         \* release identifiers are 1..MaxRelease, 0 is ""
MaxBackups == 1         \* completed velero backups listed for the Site
MaxEnvChanges == 3      \* external changes of the Site and of the cluster in a run
MaxOwnerRefs == 2       \* owner references counted on one resource

Releases == 1..MaxRelease
NoRelease == 0

VARIABLES
  site,      \* the stored DrupalSite (spec, metadata, status)
  cluster,   \* the supporting resources and what other controllers report
  last,      \* what the last reconcile pass read, did and returned
  queued,    \* a reconcile request for the Site is waiting in the workqueue
  hist       \* history: publish was ever true, nothing changed since
             \* ensureResources, the number of external changes

vars == <<site, cluster, last, queued, hist>>

\* ------------------------------------------------------------- conditions
CondNames == {"Ready", "Initialized", "UpdateNeeded", "CodeUpdateFailed",
              "DBUpdatesPending", "DBUpdatesFailed", "Error"}

NoCond == [status |-> "none", reason |-> ""]

\* DrupalSite.ConditionTrue: the condition is present with status True
ConditionTrue(d, c) == d.conds[c].status = "True"

\* status.Conditions.SetCondition: replaces or appends the condition and
\* reports whether status, reason or message differ from the stored one
SetConditionChanged(d, c, st, rs) ==
  \/ d.conds[c].status = "none"
  \/ d.conds[c].status # st
  \/ d.conds[c].reason # rs

SetCondition(d, c, st, rs) ==
  [d EXCEPT !.conds[c] = [status |-> st, reason |-> rs]]

\* status.Conditions.RemoveCondition: reports whether it was present
RemoveConditionChanged(d, c) == d.conds[c].status # "none"

RemoveCondition(d, c) == [d EXCEPT !.conds[c] = NoCond]

\* setConditionStatus(drp, type, flag, err, false): reason is the error's
\* condition, "" for a nil error
setConditionStatus(d, c, flag, rs) ==
  SetCondition(d, c, IF flag THEN "True" ELSE "False", rs)

setReady(d) == SetCondition(d, "Ready", "True", "")
setReadyChanged(d) == SetConditionChanged(d, "Ready", "True", "")

setNotReady(d, rs) == setConditionStatus(d, "Ready", FALSE, rs)
setNotReadyChanged(d, rs) == SetConditionChanged(d, "Ready", "False", rs)

setInitialized(d) == SetCondition(d, "Initialized", "True", "")
setInitializedChanged(d) == SetConditionChanged(d, "Initialized", "True", "")

setNotInitialized(d) == SetCondition(d, "Initialized", "False", "")
setNotInitializedChanged(d) == SetConditionChanged(d, "Initialized", "False", "")

setErrorCondition(d, rs) == setConditionStatus(d, "Error", TRUE, rs)

\* the caller is never told that the condition was set
setDBUpdatesPendingUnreported(d) == FALSE
setDBUpdatesPendingChanged(d) == SetConditionChanged(d, "DBUpdatesPending", "True", "")
\* setDBUpdatesPending that leaves the conditions as they are
setDBUpdatesPendingDropped(d) == d

\* setDBUpdatesPending: DBUpdatesPending=True
setDBUpdatesPending(d) == SetCondition(d, "DBUpdatesPending", "True", "")

\* setUpdateInProgress / unsetUpdateInProgress: the updateInProgress annotation
setUpdateInProgressChanged(d) == ~d.updateInProgress
setUpdateInProgress(d) == [d EXCEPT !.updateInProgress = TRUE]
unsetUpdateInProgressChanged(d) == d.updateInProgress
unsetUpdateInProgress(d) == [d EXCEPT !.updateInProgress = FALSE]

\* releaseID(d): the release identifier derived from spec.version
releaseID(d) == d.version

\* reconcileError.Temporary(): which error conditions are temporary
Temporary(e) == e \in {"ErrClientK8s", "ErrTemporary", "ErrPodNotRunning"}

\* ------------------------------------------------------ supporting resources
\* resources that exist or not; their content is a function of the Site
SimpleKinds == {"is_s2i", "bc_s2i", "pvc_drupal", "dbod_cr", "webdav_secret",
                "svc_nginx", "site_install_job", "clone_job", "webdav_route",
                "route", "oidc_return_uri", "backup_schedule"}
ConfigMapKinds == {"cm_php", "cm_nginx", "cm_settings"}
ResourceKinds == SimpleKinds \cup ConfigMapKinds \cup {"deploy_drupal"}
IngressKinds == {"webdav_route", "route", "oidc_return_uri"}

\* the kinds kept in cluster.objs and cluster.cms
StoredKinds == SimpleKinds \cup ConfigMapKinds

\* the kinds whose mutator sets the labels drupalSite and app on every call;
\* the Jobs get their labels at creation, the OidcReturnURI gets none
LabelFixKinds == ResourceKinds \ {"site_install_job", "clone_job", "oidc_return_uri"}

\* the kinds whose mutator calls addOwnerRefToObject: all but the velero
\* Schedule, which lives in the velero namespace
OwnedKinds == ResourceKinds \ {"backup_schedule"}

\* addOwnerRefToObject: appends the owner reference to those of the object
addOwnerRefToObject(n) == IF n < MaxOwnerRefs THEN n + 1 ELSE n

\* the owner reference is appended on every call of the mutator
ownerRefsOnEveryCall(kind, isNew, n) ==
  IF kind \in OwnedKinds THEN addOwnerRefToObject(n) ELSE n

\* the mutators' "if currentobject.CreationTimestamp.IsZero()": the owner
\* references of the object of this kind after the mutator ran
ownerRefs(kind, isNew, n) ==
  IF isNew /\ kind \in OwnedKinds THEN addOwnerRefToObject(n) ELSE n

\* the labels are set only when the object is created
labelsSetAtCreation(kind, changed) == changed

\* the mutators' loop over labelsForDrupalSite: whether an external change of
\* the labels drupalSite and app is still there after the mutator ran
labelsChanged(kind, changed) == changed /\ kind \notin LabelFixKinds

NoDeployment ==
  [exists |-> FALSE, rel |-> NoRelease, ready |-> FALSE, hash |-> {},
   relabeled |-> FALSE, owners |-> 0]

\* a resource of this kind exists
Exists(cl, k) ==
  IF k = "deploy_drupal" THEN cl.deploy.exists ELSE k \in cl.objs \cup cl.cms

\* the labels drupalSite and app of the resource of this kind carry a value
\* set from outside
Relabeled(cl, k) ==
  IF k = "deploy_drupal" THEN cl.deploy.relabeled ELSE k \in cl.relabeled

\* the cluster without the resource of this kind
Removed(cl, k) ==
  IF k = "deploy_drupal" THEN [cl EXCEPT !.deploy = NoDeployment, !.admin = @ \ {k}]
  ELSE [cl EXCEPT !.objs = @ \ {k}, !.cms = @ \ {k}, !.relabeled = @ \ {k},
                  !.owners[k] = 0, !.admin = @ \ {k},
                  !.dbodProvisioned = @ /\ k # "dbod_cr",
                  !.installDone = @ /\ k # "site_install_job",
                  !.cloneDone = @ /\ k # "clone_job"]

\* the metadata of a stored resource after its mutator ran in CreateOrUpdate
Mutated(cl, k, isNew) ==
  [cl EXCEPT !.relabeled = IF labelsChanged(k, k \in @) THEN @ ELSE @ \ {k},
             !.owners[k] = ownerRefs(k, isNew, @)]

\* controllerutil.CreateOrUpdate on an existing object: the operation result
UpdateResult(before, after) == IF before = after THEN "unchanged" ELSE "updated"

\* isDrupalSiteReady: the Deployment exists and reports ready replicas
isDrupalSiteReady(cl) == cl.deploy.exists /\ cl.deploy.ready

\* isDBODProvisioned: the Database resource exists and names a DBOD instance
isDBODProvisioned(cl) == "dbod_cr" \in cl.objs /\ cl.dbodProvisioned

\* isInstallJobCompleted: the install job exists and has succeeded
isInstallJobCompleted(cl) == "site_install_job" \in cl.objs /\ cl.installDone

\* isCloneJobCompleted: the clone job exists and has succeeded
isCloneJobCompleted(cl) == "clone_job" \in cl.objs /\ cl.cloneDone

\* deploymentForDrupalSite: the mutator of the Deployment; a new object gets
\* an empty pod-template annotation map, every call sets the releaseID
deploymentForDrupalSite(dep, rel) ==
  IF dep.exists
    THEN [dep EXCEPT !.rel = rel,
                     !.relabeled = labelsChanged("deploy_drupal", @),
                     !.owners = ownerRefs("deploy_drupal", FALSE, @)]
    ELSE [exists |-> TRUE, rel |-> rel, ready |-> FALSE, hash |-> {},
          relabeled |-> FALSE, owners |-> ownerRefs("deploy_drupal", TRUE, 0)]

\* controllerutil.CreateOrUpdate on the Deployment: the operation result
DeployResult(before, after) ==
  IF ~before.exists THEN "created"
  ELSE IF before = after THEN "unchanged" ELSE "updated"

\* the accumulator threaded through ensureResources
EnsureStart(cl) ==
  [cl |-> cl, res |-> [k \in ResourceKinds |-> "skipped"], errs |-> {}, nested |-> {}]

\* a CreateOrUpdate or a lookup that fails: the error is collected
EnsureError(acc, kind) ==
  [acc EXCEPT !.res[kind] = "error", !.errs = @ \cup {kind}]

\* ensureResourceX for the kinds whose mutator depends on the Site only
ensureSimple(acc, kind, F) ==
  IF kind \in F THEN EnsureError(acc, kind)
  ELSE IF kind \in acc.cl.objs
    THEN [acc EXCEPT !.res[kind] = UpdateResult(acc.cl, Mutated(acc.cl, kind, FALSE)),
                     !.cl = Mutated(@, kind, FALSE)]
  ELSE [acc EXCEPT !.res[kind] = "created",
                   !.cl = Mutated([@ EXCEPT !.objs = @ \cup {kind}], kind, TRUE)]

\* ensureResourceX("oidc_return_uri"): a failed CreateOrUpdate is logged only
ensureOidcReturnURI(acc, F) ==
  IF "oidc_return_uri" \in F THEN [acc EXCEPT !.res["oidc_return_uri"] = "error"]
  ELSE ensureSimple(acc, "oidc_return_uri", F)

\* ensureResourceX(cm_*) with updateConfigMapForPHPFPM / Nginx / SiteSettings:
\* for an existing ConfigMap the mutator fetches the Deployment and writes
\* the hash of the ConfigMap's data into its pod-template annotations
ensureConfigMap(acc, cm, F) ==
  IF cm \in F THEN EnsureError(acc, cm)
  ELSE IF cm \notin acc.cl.cms
    THEN [acc EXCEPT !.res[cm] = "created",
                     !.cl = Mutated([@ EXCEPT !.cms = @ \cup {cm}], cm, TRUE)]
  ELSE IF ~acc.cl.deploy.exists THEN EnsureError(acc, cm)
  ELSE IF cm \in acc.cl.deploy.hash
    THEN [acc EXCEPT !.res[cm] = UpdateResult(acc.cl, Mutated(acc.cl, cm, FALSE)),
                     !.cl = Mutated(@, cm, FALSE)]
  ELSE [acc EXCEPT !.res[cm] = UpdateResult(acc.cl, Mutated(acc.cl, cm, FALSE)),
                   !.cl = [Mutated(@, cm, FALSE) EXCEPT !.deploy.hash = @ \cup {cm}],
                   !.nested = @ \cup {cm}]

\* ensureResourceX("deploy_drupal"): an existing Deployment is left alone
\* during an update and after a failed one
\* ("deploy_lookup" in F: the Get of the Deployment returns an error, so that
\* err == nil is false, and the CreateOrUpdate that follows succeeds)
ensureDeployDrupal(acc, d, F) ==
  IF "deploy_drupal" \in F THEN EnsureError(acc, "deploy_drupal")
  ELSE IF acc.cl.deploy.exists /\ "deploy_lookup" \notin F
          /\ (d.updateInProgress \/ ConditionTrue(d, "CodeUpdateFailed")
              \/ ConditionTrue(d, "DBUpdatesFailed"))
    THEN acc
  ELSE LET after == deploymentForDrupalSite(acc.cl.deploy, releaseID(d))
       IN [acc EXCEPT !.res["deploy_drupal"] = DeployResult(acc.cl.deploy, after),
                      !.cl.deploy = after]

\* ensureNoRoute and ensureNoWebDAVRoute both look up the Route named after
\* the Site; kind is the call the API failure is counted for
ensureNoRouteNamedSite(acc, kind, F) ==
  IF kind \in F THEN [EnsureError(acc, kind) EXCEPT !.res[kind] = "kept"]
  ELSE IF "route" \in acc.cl.objs
    THEN [acc EXCEPT !.res[kind] = "deleted", !.cl = Removed(@, "route")]
  ELSE [acc EXCEPT !.res[kind] = "absent"]

\* ensureNoReturnURI looks up an object with an empty name: never found
ensureNoReturnURI(acc, F) ==
  IF "oidc_return_uri" \in F
    THEN [EnsureError(acc, "oidc_return_uri") EXCEPT !.res["oidc_return_uri"] = "kept"]
  ELSE [acc EXCEPT !.res["oidc_return_uri"] = "absent"]

\* ensureResources, 4: ingress is ensured for an initialized, published Site
\* and removed otherwise
\* ingress follows spec.publish alone
ingressWantedUninitialized(d) == d.publish

ingressWanted(d) == ConditionTrue(d, "Initialized") /\ d.publish

\* ensureResources(drp): F is the set of calls whose API request fails; each
\* step takes the accumulator the step before it left
ensureResources(d, cl, F) ==
  LET a0 == {IF d.extraRepo THEN ensureSimple(a, "is_s2i", F) ELSE a : a \in {EnsureStart(cl)}}
      a1 == {IF d.extraRepo THEN ensureSimple(a, "bc_s2i", F) ELSE a : a \in a0}
      a2 == {ensureSimple(a, "pvc_drupal", F) : a \in a1}
      a3 == {ensureSimple(a, "dbod_cr", F) : a \in a2}
      a4 == {ensureSimple(a, "webdav_secret", F) : a \in a3}
      a5 == {ensureConfigMap(a, "cm_php", F) : a \in a4}
      a6 == {ensureConfigMap(a, "cm_nginx", F) : a \in a5}
      a7 == {ensureConfigMap(a, "cm_settings", F) : a \in a6}
      a8 == {IF isDBODProvisioned(a.cl) THEN ensureDeployDrupal(a, d, F) ELSE a : a \in a7}
      a9 == {ensureSimple(a, "svc_nginx", F) : a \in a8}
      a10 == {IF isDBODProvisioned(a.cl)
                THEN IF d.cloneFrom = "nothing"
                       THEN ensureSimple(a, "site_install_job", F)
                       ELSE ensureSimple(a, "clone_job", F)
                ELSE a : a \in a9}
      i1 == {IF ingressWanted(d)
               THEN ensureSimple(a, "webdav_route", F)
               ELSE ensureNoRouteNamedSite(a, "webdav_route", F) : a \in a10}
      i2 == {IF ingressWanted(d)
               THEN ensureSimple(a, "route", F)
               ELSE ensureNoRouteNamedSite(a, "route", F) : a \in i1}
      a11 == {IF ingressWanted(d)
                THEN ensureOidcReturnURI(a, F)
                ELSE ensureNoReturnURI(a, F) : a \in i2}
      a12 == {IF ConditionTrue(d, "Initialized") /\ ConditionTrue(d, "Ready")
                THEN ensureSimple(a, "backup_schedule", F)
                ELSE a : a \in a11}
  IN CHOOSE a \in a12 : TRUE

\* a run of ensureResources issued a create-or-update of an ingress resource
EnsureIngress(acc) ==
  \E k \in IngressKinds : acc.res[k] \in {"created", "updated", "unchanged", "error"}

\* the create-or-update calls of a run of ensureResources that wrote something
\* the resources with labels set from outside whose CreateOrUpdate ran and
\* returned no error
EnsureApplied(cl, acc) ==
  {k \in ResourceKinds :
     Relabeled(cl, k) /\ acc.res[k] \in {"created", "updated", "unchanged"}}

EnsureChanged(acc) ==
  {k \in ResourceKinds : acc.res[k] \in {"created", "updated"}} \cup acc.nested

\* ---------------------------------------------------------------- the Site
\* what one external edit of the stored Site's spec can produce
EditKinds == {"version", "publish", "valid", "siteURL"}
Edits(s, kinds) ==
  {[s EXCEPT !.version = v] : v \in IF "version" \in kinds THEN Releases \ {s.version} ELSE {}}
  \cup (IF "publish" \in kinds THEN {[s EXCEPT !.publish = ~s.publish]} ELSE {})
  \cup (IF "valid" \in kinds THEN {[s EXCEPT !.valid = ~s.valid]} ELSE {})
  \cup (IF "siteURL" \in kinds /\ s.siteURL THEN {[s EXCEPT !.siteURL = FALSE]} ELSE {})
  \cup (IF "cloneFrom" \in kinds /\ s.cloneFrom # "" THEN {[s EXCEPT !.cloneFrom = ""]} ELSE {})

\* r.Status().Update(drp): only the status of the in-memory object is stored
WithStatus(st, d) ==
  [st EXCEPT !.conds = d.conds, !.current = d.current,
             !.failsafe = d.failsafe, !.backups = d.backups]

\* r.Update(drp): spec and metadata of the in-memory object are stored, the
\* status is not; a Site marked for deletion goes away with its last finalizer
WithSpec(st, d) ==
  LET w == [d EXCEPT !.conds = st.conds, !.current = st.current,
                     !.failsafe = st.failsafe, !.backups = st.backups]
  IN IF w.phase = "deleting" /\ ~w.finalizer THEN [w EXCEPT !.phase = "gone"] ELSE w

\* outcomes of a write of the Site: stored, refused because the Site was
\* edited after the pass read it, or failed for another reason
WriteOutcomes == {"ok", "conflict", "error"}

\* outcomes of a command sent over the exec channel by
\* execToServerPodErrOnStderr: no running pod or a failed exec call
\* ("transport"), output on stderr, or stdout that is empty or not
ExecOutcomes == {"transport", "stderr", "empty", "out"}
ExecFailed(o) == o \in {"transport", "stderr"}

\* what getPodForVersion finds for the desired release
PodObservations == {"listError", "noPod", "otherRelease", "Failed", "Unknown",
                    "PendingYoung", "PendingOld", "Running"}

\* the lists of completed backups checkNewBackups can return
RECURSIVE BackupLists(_)
BackupLists(n) ==
  IF n = 0 THEN {<<>>}
  ELSE BackupLists(n - 1) \cup {Append(l, n) : l \in {x \in BackupLists(n - 1) : Len(x) = n - 1}}

\* what the log of a pass says of the list checkNewBackups returned: the
\* number of completed backups
BackupsFound(backupList) == ToString(Len(backupList))

\* backupListUpdateNeeded: the lengths or the names at some index differ
backupListUpdateNeeded(veleroBackupsList, statusBackupsList) ==
  \/ Len(veleroBackupsList) # Len(statusBackupsList)
  \/ \E i \in 1..Len(veleroBackupsList) : veleroBackupsList[i] # statusBackupsList[i]

\* updateBackupListStatus: one status entry per completed backup
updateBackupListStatus(veleroBackupsList) == veleroBackupsList

\* the sets of ensureResources calls whose API request fails in one pass: none,
\* or one call among kinds
FailureSets(kinds) == {{}} \cup {{k} : k \in kinds}

\* what the collaborators can answer in a pass: the outcomes of writes of the
\* Site, of exec commands and of other API calls, the pods found, the
\* ensureResources calls that can fail, the backups listed, whether a running pod
\* of the desired release is found while the Deployment is at another release,
\* the concurrent edits
AllInputs ==
  [writes |-> WriteOutcomes, exec |-> ExecOutcomes, api |-> {"ok", "error"},
   pods |-> PodObservations, failing |-> {},
   backups |-> MaxBackups, strayPods |-> BOOLEAN, edits |-> {"version", "publish"}]

\* ------------------------------------------------------ the reconcile pass
\* A pass is one action. Each step of Reconcile takes the context c of the
\* pass (the Site in memory, the cluster as changed so far, what was done) and
\* gives the set of contexts it can lead to, one for each answer of the
\* collaborators; a context that is done has returned from Reconcile.

\* the log of a pass: what it did, in order
L(op, what, out) == [op |-> op, what |-> what, out |-> out]
NoEnsure ==
  [ran |-> FALSE, errs |-> {}, changed |-> {}, ingress |-> FALSE, applied |-> {},
   cl |-> <<>>]

\* the locals of a pass: d is the in-memory DrupalSite, stored the Site as
\* r.Get read it, update the flag of step 2, err the err of r.Get; editable
\* says that a concurrent edit of the Site can still happen; st, requeue and
\* reterr are the stored Site and the (Result, error) of a pass that is done
PassStart(I) ==
  [d |-> site, stored |-> site, cl |-> cluster, lg |-> <<>>, update |-> FALSE,
   requeueFlag |-> FALSE, err |-> FALSE, ens |-> NoEnsure, in |-> I,
   editable |-> hist.changes < MaxEnvChanges, done |-> FALSE, st |-> site,
   requeue |-> FALSE, reterr |-> FALSE, conflicts |-> 0]

Log(c, op, what, out) == [c EXCEPT !.lg = Append(@, L(op, what, out))]

\* the pass returns (Result{Requeue: requeue}, err) and leaves st stored
Return(c, st, requeue, err) ==
  [c EXCEPT !.done = TRUE, !.st = st, !.requeue = requeue, !.reterr = err]

\* what last keeps of the Site a pass has read
Digest(s) ==
  [initialized |-> ConditionTrue(s, "Initialized"), publish |-> s.publish,
   pending |-> ConditionTrue(s, "DBUpdatesPending")]

\* the effect of a pass that has returned; a request is queued again by
\* Requeue, by an error, and by the events of what the pass wrote
Ended(c) ==
  /\ site' = c.st
  /\ cluster' = c.cl
  /\ last' = [start |-> Digest(site), log |-> c.lg, requeue |-> c.requeue,
              err |-> c.reterr, ensured |-> c.ens.ran,
              ensureErrs |-> c.ens.errs # {}, ensureChanged |-> c.ens.changed # {},
              ingress |-> c.ens.ingress, applied |-> c.ens.applied,
              cleanAtStart |-> hist.clean]
  /\ queued' = (c.requeue \/ c.reterr \/ c.st # site \/ c.cl # cluster)
  /\ hist' = [everPublished |-> hist.everPublished \/ c.st.publish,
              clean |-> c.ens.ran /\ c.ens.cl = c.cl /\ c.st = site,
              changes |-> hist.changes + c.conflicts]

\* what the caller does with the result of a write of the Site:
\* "return" returns it, "discard" returns (Result{}, the captured err),
\* "requeue" returns (Result{Requeue: true}, nil)
WriteRequeue(mode, w) ==
  IF mode = "return" THEN w = "conflict" ELSE mode = "requeue"
WriteErr(mode, w, c) ==
  IF mode = "return" THEN w = "error"
  ELSE IF mode = "discard" THEN c.err ELSE FALSE

\* a write of the Site that meets a conflict: the Site was edited after the
\* pass read it, and the edited Site stays stored
Conflict(c, what, requeue, err) ==
  IF "conflict" \in c.in.writes /\ c.editable
    THEN {[Return(Log(c, "write", what, "conflict"), e, requeue, err)
             EXCEPT !.conflicts = 1] : e \in Edits(c.stored, c.in.edits)}
    ELSE {}

\* updateCRStatusOrFailReconcile
updateCRStatusOrFailReconcile(c, mode) ==
  {Return(Log(c, "write", "status", w),
          IF w = "ok" THEN WithStatus(c.stored, c.d) ELSE c.stored,
          WriteRequeue(mode, w), WriteErr(mode, w, c)) : w \in c.in.writes \ {"conflict"}}
  \cup Conflict(c, "status", WriteRequeue(mode, "conflict"), WriteErr(mode, "conflict", c))

\* updateCRorFailReconcile
updateCRorFailReconcile(c) ==
  {Return(Log(c, "write", "spec", w),
          IF w = "ok" THEN WithSpec(c.stored, c.d) ELSE c.stored,
          FALSE, w = "error") : w \in c.in.writes \ {"conflict"}}
  \cup Conflict(c, "spec", TRUE, FALSE)

\* handleTransientErr: sets Ready false for status "Ready", writes the status
\* and returns the err captured from the enclosing function either way
handleTransientErr(c, rs, status) ==
  LET c1 == IF status = "Ready"
              THEN Log([c EXCEPT !.d = setConditionStatus(c.d, "Ready", FALSE, rs)],
                       "cond", "Ready", "False")
              ELSE c
  IN updateCRStatusOrFailReconcile(c1, "discard")

\* cleanupDrupalSite with ensureNoSchedule: the finalizer is removed once the
\* backup schedule is gone
\* the Site is written whatever ensureNoSchedule returned
cleanupDrupalSiteUnguarded(c) ==
  UNION {updateCRorFailReconcile(
           Log([c EXCEPT !.d.finalizer = FALSE], "delete", "backup_schedule", api))
         : api \in c.in.api}

cleanupDrupalSite(c) ==
  UNION {LET c1 == [c EXCEPT !.d.finalizer = FALSE]
         IN IF api = "error"
              THEN {Return(Log(c1, "delete", "backup_schedule", "error"), c.stored, FALSE, TRUE)}
              ELSE updateCRorFailReconcile(
                     Log([c1 EXCEPT !.cl = Removed(@, "backup_schedule")],
                         "delete", "backup_schedule", "ok")) : api \in c.in.api}

\* Reconcile: the Site is fetched, and cleaned up when it is being deleted
Fetch(c) ==
  UNION {IF get = "error" THEN {Return(Log(c, "get", "site", "error"), c.stored, FALSE, TRUE)}
         ELSE IF c.d.phase = "gone" THEN {Return(c, c.stored, FALSE, FALSE)}
         ELSE IF c.d.phase = "deleting"
           THEN IF c.d.finalizer THEN cleanupDrupalSite(c)
                ELSE {Return(c, c.stored, FALSE, FALSE)}
         ELSE {c} : get \in c.in.api}

\* ensureSpecFinalizer: the in-memory Site with finalizer and defaults;
\* listed is what the list of production sites of the namespace returned
ensureSpecFinalizer(d, listed) ==
  LET d1 == [d EXCEPT !.finalizer = TRUE, !.siteURL = TRUE]
  IN IF d1.cloneFrom # "" \/ listed = "error" THEN d1
     ELSE IF listed = "production" /\ ~ConditionTrue(d1, "Initialized")
       THEN [d1 EXCEPT !.cloneFrom = "other"]
     ELSE [d1 EXCEPT !.cloneFrom = "nothing"]

\* Reconcile, 1: finalizer and defaults
Initialize(c) ==
  UNION {LET update == ~c.d.finalizer
             c1 == [c EXCEPT !.d = ensureSpecFinalizer(c.d, listed)]
         IN IF c.d.cloneFrom = "" /\ listed = "error"
              THEN updateCRStatusOrFailReconcile(
                     Log([c1 EXCEPT !.d = setErrorCondition(c1.d, "ErrClientK8s")],
                         "cond", "Error", "True"), "return")
            ELSE IF update
              THEN updateCRorFailReconcile(Log(c1, "spec", "defaults", "set"))
            ELSE IF c1.d # c.d THEN {Log(c1, "spec", "defaults", "set")}
            ELSE {c1}
         : listed \in IF c.d.cloneFrom = ""
                        THEN {"none", "production"} \cup (c.in.api \ {"ok"})
                        ELSE {"none"}}

\* validateSpec: the error it returns for the spec, "" for none
validateSpec(d) == IF d.valid THEN "" ELSE "ErrInvalidSpec"

\* the pass goes on after it has written the status of an invalid Site
ValidateGoesOn(c) ==
  IF validateSpec(c.d) # ""
    THEN {Log(Log([Log(c, "validate", "spec", "invalid")
                     EXCEPT !.d = setErrorCondition(c.d, validateSpec(c.d))],
                  "cond", "Error", "True"),
              "write", "status", "ok")}
    ELSE {c}

\* Reconcile, 1: validateSpec, and what Reconcile does when it fails
ValidateClearing(c) ==
  IF validateSpec(c.d) # ""
    THEN updateCRStatusOrFailReconcile(
           Log([Log(c, "validate", "spec", "invalid")
                  EXCEPT !.d = setErrorCondition(c.d, validateSpec(c.d))],
               "cond", "Error", "True"),
           "return")
    ELSE {[c EXCEPT !.d.conds["Error"] = NoCond]}

Validate(c) ==
  IF validateSpec(c.d) # ""
    THEN updateCRStatusOrFailReconcile(
           Log([Log(c, "validate", "spec", "invalid")
                  EXCEPT !.d = setErrorCondition(c.d, validateSpec(c.d))],
               "cond", "Error", "True"),
           "return")
    ELSE {c}

\* Reconcile, 2: status.releaseID.current follows the spec
CheckConditions(c) ==
  IF c.d.current # releaseID(c.d)
    THEN {Log([c EXCEPT !.d.current = releaseID(c.d), !.update = TRUE],
              "status", "current", "set")}
    ELSE {c}

\* Reconcile, 2: Ready follows the Deployment's ready replicas
CheckReady(c) ==
  IF isDrupalSiteReady(c.cl)
    THEN IF setReadyChanged(c.d)
           THEN {Log([c EXCEPT !.d = setReady(c.d), !.update = TRUE], "cond", "Ready", "True")}
           ELSE {c}
    ELSE IF setNotReadyChanged(c.d, "")
           THEN {Log([c EXCEPT !.d = setNotReady(c.d, ""), !.update = TRUE],
                     "cond", "Ready", "False")}
           ELSE {c}

\* execToServerPod after getRunningPodForVersion(releaseID(d)): the command
\* runs in a running pod of the desired release; without a Deployment, or with
\* a Deployment of another release and no pod of the desired one left over
\* (strayPods), there is none and the command fails before it runs; no is
\* the set of results the command cannot give
ExecResults(c, no) ==
  IF ~c.cl.deploy.exists THEN {"transport"}
  ELSE UNION {IF c.cl.deploy.rel = releaseID(c.d) \/ stray
                THEN c.in.exec \ no ELSE {"transport"} : stray \in c.in.strayPods}

\* isDrupalSiteInstalled: the site is ready and the status command succeeds
isDrupalSiteInstalled(cl, check) == isDrupalSiteReady(cl) /\ ~ExecFailed(check)

\* Reconcile, 2: Initialized follows the install check and the clone job
CheckInitialized(c) ==
  IF ~ConditionTrue(c.d, "Initialized")
    THEN {LET c1 == IF isDrupalSiteReady(c.cl)
                      THEN Log(c, "exec", "checkIfSiteIsInstalled", check) ELSE c
          IN IF isDrupalSiteInstalled(c1.cl, check) \/ isCloneJobCompleted(c1.cl)
               THEN Log([c1 EXCEPT !.d = setInitialized(c1.d),
                                   !.update = @ \/ setInitializedChanged(c1.d)],
                        "cond", "Initialized", "True")
             ELSE IF setNotInitializedChanged(c1.d)
               THEN Log([c1 EXCEPT !.d = setNotInitialized(c1.d), !.update = TRUE],
                        "cond", "Initialized", "False")
             ELSE c1
          : check \in IF isDrupalSiteReady(c.cl) THEN c.in.exec \ {"out"} ELSE {"transport"}}
    ELSE {c}

\* Reconcile, the check that clears DBUpdatesPending, run whatever
\* DBUpdatesFailed says
ClearPendingUnguarded(c) ==
  IF ConditionTrue(c.d, "DBUpdatesPending")
    THEN UNION {LET c1 == Log(c, "exec", "checkUpdbStatus", check)
                IN IF ExecFailed(check) THEN updateCRStatusOrFailReconcile(c1, "return")
                   ELSE IF check = "empty"
                     THEN {Log([c1 EXCEPT !.d = RemoveCondition(c1.d, "DBUpdatesPending"),
                                          !.update = TRUE],
                               "cond", "DBUpdatesPending", "removed")}
                   ELSE {c1} : check \in ExecResults(c, {})}
    ELSE {c}

\* Reconcile, 2: DBUpdatesPending is removed when no DB update is left
ClearPending(c) ==
  IF ConditionTrue(c.d, "DBUpdatesPending") /\ ~ConditionTrue(c.d, "DBUpdatesFailed")
    THEN UNION {LET c1 == Log(c, "exec", "checkUpdbStatus", check)
                IN IF ExecFailed(check) THEN updateCRStatusOrFailReconcile(c1, "return")
                   ELSE IF check = "empty"
                     THEN {Log([c1 EXCEPT !.d = RemoveCondition(c1.d, "DBUpdatesPending"),
                                          !.update = TRUE],
                               "cond", "DBUpdatesPending", "removed")}
                   ELSE {c1} : check \in ExecResults(c, {})}
    ELSE {c}

\* Reconcile, the failure conditions removed whatever the failsafe release is
ClearFailuresAlways(c) ==
  LET caught == TRUE
      c1 == IF caught /\ ConditionTrue(c.d, "CodeUpdateFailed")
              THEN Log([c EXCEPT !.d = RemoveCondition(c.d, "CodeUpdateFailed")],
                       "cond", "CodeUpdateFailed", "removed")
              ELSE c
      c2 == IF caught /\ ConditionTrue(c1.d, "DBUpdatesFailed")
              THEN Log([c1 EXCEPT !.d = RemoveCondition(c1.d, "DBUpdatesFailed")],
                       "cond", "DBUpdatesFailed", "removed")
              ELSE c1
  IN IF c.update \/ c2.d # c.d
       THEN updateCRStatusOrFailReconcile(c2, "return")
       ELSE {c2}

\* Reconcile, 2, its last part: the failure conditions are removed when the
\* failsafe is the desired release, and changed conditions are stored
ClearFailures(c) ==
  LET caught == c.d.failsafe = releaseID(c.d)
      c1 == IF caught /\ ConditionTrue(c.d, "CodeUpdateFailed")
              THEN Log([c EXCEPT !.d = RemoveCondition(c.d, "CodeUpdateFailed")],
                       "cond", "CodeUpdateFailed", "removed")
              ELSE c
      c2 == IF caught /\ ConditionTrue(c1.d, "DBUpdatesFailed")
              THEN Log([c1 EXCEPT !.d = RemoveCondition(c1.d, "DBUpdatesFailed")],
                       "cond", "DBUpdatesFailed", "removed")
              ELSE c1
  IN IF c.update \/ c2.d # c.d
       THEN updateCRStatusOrFailReconcile(c2, "return")
       ELSE {c2}

\* no update is ever found to be needed
updateNeededNever(d, cl, get) == "no"

\* updateNeeded: "error", or whether the Deployment runs another release
updateNeeded(d, cl, get) ==
  IF ConditionTrue(d, "Ready") /\ ConditionTrue(d, "Initialized")
    THEN IF get = "error" \/ ~cl.deploy.exists THEN "error"
         ELSE IF cl.deploy.rel # releaseID(d) THEN "needed" ELSE "no"
    ELSE "no"

\* Reconcile, the start of an update: the annotation is set
StartUpdate(c) ==
  UNION {LET needed == updateNeeded(c.d, c.cl, get)
         IN IF /\ ~c.d.updateInProgress
               /\ ~ConditionTrue(c.d, "CodeUpdateFailed")
               /\ ~ConditionTrue(c.d, "DBUpdatesFailed")
              THEN IF needed = "error"
                     THEN {Log([c EXCEPT !.requeueFlag = TRUE], "get", "deployment", "error")}
                   ELSE IF needed = "needed" /\ setUpdateInProgressChanged(c.d)
                     THEN updateCRorFailReconcile(
                            Log([c EXCEPT !.d = setUpdateInProgress(c.d)],
                                "annotation", "updateInProgress", "set"))
                   ELSE {c}
              ELSE {c}
         : get \in IF ConditionTrue(c.d, "Ready") /\ ConditionTrue(c.d, "Initialized")
                     THEN c.in.api ELSE {"ok"}}

\* Reconcile, 3: ensureResources and its errors
EnsureDone(c, acc) ==
  UNION {IF acc.errs # {}
           THEN handleTransientErr(
                  Log([c1 EXCEPT !.d = setNotReady(c1.d, "ErrClientK8s")],
                      "cond", "Ready", "False"),
                  "ErrClientK8s", "Ready")
           ELSE {c1}
         : c1 \in {Log([c EXCEPT !.cl = acc.cl,
                                 !.ens = [ran |-> TRUE, errs |-> acc.errs,
                                          changed |-> EnsureChanged(acc),
                                          applied |-> EnsureApplied(c.cl, acc),
                                          ingress |-> EnsureIngress(acc), cl |-> acc.cl]],
                        "ensure", "resources", IF acc.errs = {} THEN "ok" ELSE "error")}}

EnsureAll(c) ==
  UNION {UNION {EnsureDone(c, acc) : acc \in {ensureResources(c.d, c.cl, F)}}
         : F \in FailureSets(c.in.failing)}

\* rollBackCodeUpdate: the Deployment is set to the failsafe release
rollBackCodeUpdate(dep, d) == deploymentForDrupalSite(dep, d.failsafe)

\* ensureUpdatedDeployment: the Deployment is set to the desired release
ensureUpdatedDeployment(dep, d) == deploymentForDrupalSite(dep, releaseID(d))

\* getPodForVersion finds a pod of the release whatever was listed
getPodForVersionUnchecked(pod) == ""

\* getPodForVersion: the error returned for what the pod list shows ("" when
\* a pod of the release is found)
getPodForVersion(pod) ==
  CASE pod = "listError" -> "ErrClientK8s"
    [] pod = "noPod" -> "ErrTemporary"
    [] pod = "otherRelease" -> "ErrClientK8s"
    [] OTHER -> ""

\* didVersionRollOutSucceed on the phase of the pod, without the grace period
\* of a Pending pod
podPhaseNoGrace(pod) ==
  CASE pod \in {"Failed", "Unknown", "PendingYoung", "PendingOld"} -> "ErrDeploymentUpdateFailed"
    [] OTHER -> ""

\* didVersionRollOutSucceed on the phase of the pod: a Failed or Unknown pod
\* and a pod Pending for 3 minutes or more are failures, a younger Pending
\* pod is not running yet; the pod is the empty one when none was found
podPhase(pod) ==
  CASE pod \in {"Failed", "Unknown", "PendingOld"} -> "ErrDeploymentUpdateFailed"
    [] pod = "PendingYoung" -> "ErrPodNotRunning"
    [] OTHER -> ""

\* didVersionRollOutSucceed: the error returned ("" when the pod of the
\* release runs)
didVersionRollOutSucceed(pod) ==
  IF getPodForVersion(pod) # "" /\ Temporary(getPodForVersion(pod))
    THEN "ErrClientK8s"
    ELSE podPhase(pod)

\* updateDrupalVersion, after a cache reload that ran: output on stdout is a
\* failure, the Deployment is rolled back and the result of that is dropped
CacheReloaded(c, sout) ==
  IF sout = "out"
    THEN UNION {LET c1 == Log(c, "deploy", "rollback", rb)
                    c2 == IF rb = "ok"
                            THEN [c1 EXCEPT !.cl.deploy = rollBackCodeUpdate(c1.cl.deploy, c1.d)]
                            ELSE c1
                IN updateCRStatusOrFailReconcile(
                     Log([c2 EXCEPT !.d = setConditionStatus(c2.d, "CodeUpdateFailed", TRUE,
                                                             "Error clearing cache")],
                         "cond", "CodeUpdateFailed", "True"), "return") : rb \in c.in.api}
  ELSE IF ConditionTrue(c.d, "CodeUpdateFailed")
    THEN updateCRStatusOrFailReconcile(
           Log([c EXCEPT !.d = RemoveCondition(c.d, "CodeUpdateFailed")],
               "cond", "CodeUpdateFailed", "removed"), "return")
  ELSE {c}

\* updateDrupalVersion, its last part: the cache reload on the new release,
\* tried a second time when the first fails
CacheReload(c) ==
  UNION {LET c1 == Log(c, "exec", "cacheReload", first)
         IN IF ExecFailed(first)
              THEN UNION {LET c2 == Log(c1, "exec", "cacheReload", second)
                          IN IF ExecFailed(second)
                               THEN updateCRStatusOrFailReconcile(c2, "return")
                               ELSE CacheReloaded(c2, second) : second \in ExecResults(c, {})}
              ELSE CacheReloaded(c1, first) : first \in ExecResults(c, {})}

\* what Reconcile does with an error of updateDrupalVersion
CodeUpdateError(c, e) ==
  IF Temporary(e) THEN {Return(c, c.stored, FALSE, TRUE)}
  ELSE handleTransientErr(c, e, "CodeUpdateFailed")

\* didVersionRollOutSucceed has returned for the pod found: the error e
RolledOut(c, e) ==
  IF e = "" THEN CacheReload(c)
  ELSE IF Temporary(e) THEN CodeUpdateError(c, e)
  ELSE UNION {LET c1 == Log(c, "deploy", "rollback", rb)
              IN IF rb = "error" THEN CodeUpdateError(c1, "ErrClientK8s")
                 ELSE updateCRStatusOrFailReconcile(
                        Log([c1 EXCEPT
                               !.cl.deploy = rollBackCodeUpdate(c1.cl.deploy, c1.d),
                               !.d = setConditionStatus(c1.d, "CodeUpdateFailed", TRUE, e)],
                            "cond", "CodeUpdateFailed", "True"), "return") : rb \in c.in.api}

\* updateDrupalVersion once ensureUpdatedDeployment returned: the rollout is
\* checked whatever the result of CreateOrUpdate
ConvergedUnsettled(c, result) ==
  UNION {RolledOut(Log(c, "pods", "rollout", pod), didVersionRollOutSucceed(pod))
         : pod \in c.in.pods}

\* updateDrupalVersion once ensureUpdatedDeployment returned: the rollout is
\* checked when CreateOrUpdate changed nothing, else the pass asks for a
\* requeue
Converged(c, result) ==
  IF result # "unchanged"
    THEN {Return(c, c.stored, TRUE, FALSE)}
    ELSE UNION {RolledOut(Log(c, "pods", "rollout", pod), didVersionRollOutSucceed(pod))
                : pod \in c.in.pods}

\* updateDrupalVersion, and what Reconcile does with its result
updateDrupalVersion(c) ==
  UNION {IF api = "error" THEN CodeUpdateError(Log(c, "deploy", "update", api), "ErrClientK8s")
         ELSE UNION {Converged(Log([c1 EXCEPT !.cl.deploy = after], "deploy", "result",
                                   DeployResult(c1.cl.deploy, after)),
                               DeployResult(c1.cl.deploy, after))
                     : after \in {ensureUpdatedDeployment(c1.cl.deploy, c1.d)
                                  : c1 \in {Log(c, "deploy", "update", api)}},
                       c1 \in {Log(c, "deploy", "update", api)}}
         : api \in c.in.api}

\* Reconcile, the code update, started whatever CodeUpdateFailed says
CodeUpdateRetried(c) ==
  IF c.d.updateInProgress /\ ~ConditionTrue(c.d, "DBUpdatesPending")
    THEN updateDrupalVersion(c)
    ELSE {c}

\* Reconcile, the code update
CodeUpdate(c) ==
  IF /\ c.d.updateInProgress
     /\ ~ConditionTrue(c.d, "CodeUpdateFailed")
     /\ ~ConditionTrue(c.d, "DBUpdatesPending")
    THEN updateDrupalVersion(c)
    ELSE {c}

\* updateDBSchema, its last part: the conditions are removed
DBUpdateDone(c) ==
  IF ConditionTrue(c.d, "DBUpdatesPending")
    THEN LET d1 == RemoveCondition(c.d, "DBUpdatesPending")
             d2 == IF ConditionTrue(d1, "DBUpdatesFailed")
                     THEN RemoveCondition(d1, "DBUpdatesFailed") ELSE d1
         IN updateCRStatusOrFailReconcile(
              Log([c EXCEPT !.d = d2], "cond", "DBUpdatesPending", "removed"), "return")
    ELSE {c}

\* updateDBSchema, a failure that sets DBUpdatesFailed and drops
\* DBUpdatesPending
DBUpdateFailedUnpending(c, rs) ==
  updateCRStatusOrFailReconcile(
    Log([c EXCEPT !.d = RemoveCondition(setConditionStatus(c.d, "DBUpdatesFailed", TRUE, rs),
                                        "DBUpdatesPending")],
        "cond", "DBUpdatesFailed", "True"), "return")

\* updateDBSchema sets DBUpdatesFailed, and Reconcile writes the status
DBUpdateFailed(c, rs) ==
  updateCRStatusOrFailReconcile(
    Log([c EXCEPT !.d = setConditionStatus(c.d, "DBUpdatesFailed", TRUE, rs)],
        "cond", "DBUpdatesFailed", "True"), "return")

\* updateDBSchema, the migration after the backup, with no restore and no
\* condition when the migration fails
RunUpDBUnrestored(c) ==
  UNION {IF ExecFailed(updb)
           THEN updateCRStatusOrFailReconcile(Log(c, "exec", "runUpDBCommand", updb), "return")
           ELSE DBUpdateDone(Log(c, "exec", "runUpDBCommand", updb))
         : updb \in ExecResults(c, {"out"})}

\* updateDBSchema, the migration after the backup, with rollBackDBUpdate
RunUpDB(c) ==
  UNION {LET c1 == Log(c, "exec", "runUpDBCommand", updb)
         IN IF ExecFailed(updb)
              THEN UNION {DBUpdateFailed(Log(c1, "exec", "restoreBackup", restore),
                                         "ErrDBUpdateFailed") : restore \in ExecResults(c, {"out"})}
              ELSE DBUpdateDone(c1) : updb \in ExecResults(c, {"out"})}

\* updateDBSchema after takeBackup, the migration run whatever the backup
\* returned
BackedUpUnchecked(c, backup) == RunUpDB(c)

\* updateDBSchema after takeBackup: a failed backup sets DBUpdatesFailed,
\* else the migration runs
BackedUp(c, backup) ==
  IF ExecFailed(backup) THEN DBUpdateFailed(c, "ErrPodExec") ELSE RunUpDB(c)

\* updateDBSchema, and what Reconcile does with its result
updateDBSchema(c) ==
  UNION {LET c1 == Log(c, "exec", "checkUpdbStatus", check)
         IN IF ExecFailed(check) THEN updateCRStatusOrFailReconcile(c1, "return")
            ELSE IF check = "out"
              THEN IF setDBUpdatesPendingChanged(c1.d)
                     THEN updateCRStatusOrFailReconcile(
                            Log([c1 EXCEPT !.d = setDBUpdatesPending(c1.d)],
                                "cond", "DBUpdatesPending", "True"), "return")
                   ELSE UNION {BackedUp(Log(c1, "exec", "takeBackup", backup), backup)
                               : backup \in ExecResults(c, {"out"})}
            ELSE DBUpdateDone(c1) : check \in ExecResults(c, {})}

\* the DB update runs whatever the failure conditions say
DBUpdateUnguarded(c) ==
  IF c.d.updateInProgress THEN updateDBSchema(c) ELSE {c}

\* Reconcile, the DB update
DBUpdate(c) ==
  IF /\ c.d.updateInProgress
     /\ ~ConditionTrue(c.d, "DBUpdatesFailed")
     /\ ~ConditionTrue(c.d, "CodeUpdateFailed")
    THEN updateDBSchema(c)
    ELSE {c}

\* the pass goes on after it has written the Site without the annotation
EndUpdateGoesOn(c) ==
  IF unsetUpdateInProgressChanged(c.d)
    THEN {Log(Log([c EXCEPT !.d = unsetUpdateInProgress(c.d)],
                  "annotation", "updateInProgress", "unset"),
              "write", "spec", "ok")}
    ELSE {c}

\* Reconcile, the end of an update: the annotation is removed
EndUpdate(c) ==
  IF unsetUpdateInProgressChanged(c.d)
    THEN updateCRorFailReconcile(
           Log([c EXCEPT !.d = unsetUpdateInProgress(c.d)],
               "annotation", "updateInProgress", "unset"))
    ELSE {c}

\* Reconcile, 4: the DBOD has to be provisioned
CheckDBOD(c) ==
  IF ~isDBODProvisioned(c.cl)
    THEN IF setNotReadyChanged(c.d, "ErrDBOD")
           THEN updateCRStatusOrFailReconcile(
                  Log([c EXCEPT !.d = setNotReady(c.d, "ErrDBOD")], "cond", "Ready", "False"),
                  "requeue")
           ELSE {Return(c, c.stored, TRUE, FALSE)}
    ELSE {c}

\* the failsafe advances whatever the failure conditions say
failsafeOutdatedUnguarded(d) == d.current # d.failsafe

\* Reconcile, the failsafe: set after the first instantiation and after a
\* successful update
failsafeOutdated(d) ==
  /\ d.current # d.failsafe
  /\ ~ConditionTrue(d, "DBUpdatesFailed")
  /\ ~ConditionTrue(d, "CodeUpdateFailed")

UpdateFailsafe(c) ==
  IF failsafeOutdated(c.d)
    THEN updateCRStatusOrFailReconcile(
           Log([c EXCEPT !.d.failsafe = releaseID(c.d)], "status", "failsafe", "set"),
           "return")
    ELSE {c}

\* Reconcile, the backup list: checkNewBackups and the final return
SyncList(c, backupList) ==
  IF Len(backupList) # 0 /\ backupListUpdateNeeded(backupList, c.d.backups)
    THEN updateCRStatusOrFailReconcile(
           Log([c EXCEPT !.d.backups = updateBackupListStatus(backupList)],
               "status", "availableBackups", "set"), "return")
    ELSE {Return(c, c.stored, FALSE, c.requeueFlag)}

SyncBackups(c) ==
  UNION {IF listed = "error"
           THEN {Return(Log(c, "list", "backups", "error"), c.stored, FALSE, TRUE)}
           ELSE UNION {SyncList(Log(c, "list", "backups", BackupsFound(backupList)),
                                backupList)
                       : backupList \in BackupLists(c.in.backups)}
         : listed \in c.in.api}

\* Reconcile: one pass for the Site, its steps in the order of the code; a
\* context that has returned takes no further step
Reconcile(I) ==
  /\ queued
  /\ LET s1 == Fetch(PassStart(I))
         s2 == UNION {IF c.done THEN {c} ELSE Initialize(c) : c \in s1}
         s3 == UNION {IF c.done THEN {c} ELSE Validate(c) : c \in s2}
         s4 == UNION {IF c.done THEN {c} ELSE CheckConditions(c) : c \in s3}
         s5 == UNION {IF c.done THEN {c} ELSE CheckReady(c) : c \in s4}
         s6 == UNION {IF c.done THEN {c} ELSE CheckInitialized(c) : c \in s5}
         s7 == UNION {IF c.done THEN {c} ELSE ClearPending(c) : c \in s6}
         s8 == UNION {IF c.done THEN {c} ELSE ClearFailures(c) : c \in s7}
         s9 == UNION {IF c.done THEN {c} ELSE StartUpdate(c) : c \in s8}
         s10 == UNION {IF c.done THEN {c} ELSE EnsureAll(c) : c \in s9}
         s11 == UNION {IF c.done THEN {c} ELSE CodeUpdate(c) : c \in s10}
         s12 == UNION {IF c.done THEN {c} ELSE DBUpdate(c) : c \in s11}
         s13 == UNION {IF c.done THEN {c} ELSE EndUpdate(c) : c \in s12}
         s14 == UNION {IF c.done THEN {c} ELSE CheckDBOD(c) : c \in s13}
         s15 == UNION {IF c.done THEN {c} ELSE UpdateFailsafe(c) : c \in s14}
         s16 == UNION {IF c.done THEN {c} ELSE SyncBackups(c) : c \in s15}
     IN \E c \in s16 : Ended(c)

\* ------------------------------------------------------------ environment
\* a DrupalSite as a user creates it: no finalizer, no status
NewSites ==
  [phase : {"live"}, finalizer : {FALSE}, version : {1}, publish : BOOLEAN,
   valid : {TRUE}, extraRepo : {FALSE}, siteURL : BOOLEAN,
   cloneFrom : {"", "nothing"}, updateInProgress : {FALSE},
   conds : {[c \in CondNames |-> NoCond]}, current : {NoRelease},
   failsafe : {NoRelease}, backups : {<<>>}]

NoPass ==
  [start |-> [initialized |-> FALSE, publish |-> FALSE, pending |-> FALSE], log |-> <<>>, requeue |-> FALSE, err |-> FALSE, ensured |-> FALSE,
   ensureErrs |-> FALSE, ensureChanged |-> FALSE, ingress |-> FALSE,
   applied |-> {}, cleanAtStart |-> FALSE]

Init ==
  /\ site \in NewSites
  /\ cluster = [objs |-> {}, cms |-> {}, deploy |-> NoDeployment,
                relabeled |-> {}, admin |-> {}, owners |-> [k \in StoredKinds |-> 0],
                dbodProvisioned |-> FALSE, cloneDone |-> FALSE, installDone |-> FALSE]
  /\ last = NoPass
  /\ queued = TRUE
  /\ hist = [everPublished |-> site.publish, clean |-> FALSE, changes |-> 0]

\* an event of the Site or of an owned resource: a request is queued
Changed ==
  /\ hist.changes < MaxEnvChanges
  /\ queued' = TRUE
  /\ hist' = [everPublished |-> hist.everPublished \/ site'.publish, clean |-> FALSE,
              changes |-> hist.changes + 1]
  /\ last' = NoPass

\* a user edits the spec of the Site
EditSite(kinds) ==
  /\ site.phase = "live"
  /\ site' \in Edits(site, kinds)
  /\ UNCHANGED cluster
  /\ Changed

\* a user deletes the Site: it stays while it carries the finalizer
DeleteSite ==
  /\ site.phase = "live"
  /\ site' = [site EXCEPT !.phase = IF site.finalizer THEN "deleting" ELSE "gone"]
  /\ UNCHANGED cluster
  /\ Changed

\* the Deployment's ready replicas change
DeploymentReports ==
  /\ cluster.deploy.exists
  /\ cluster' = [cluster EXCEPT !.deploy.ready = ~@]
  /\ UNCHANGED site
  /\ Changed

\* the DBOD operator provisions the database, or the instance goes away
DatabaseReports ==
  /\ "dbod_cr" \in cluster.objs
  /\ cluster' = [cluster EXCEPT !.dbodProvisioned = ~@]
  /\ UNCHANGED site
  /\ Changed

\* the clone job succeeds
CloneJobReports ==
  /\ "clone_job" \in cluster.objs
  /\ ~cluster.cloneDone
  /\ cluster' = [cluster EXCEPT !.cloneDone = TRUE]
  /\ UNCHANGED site
  /\ Changed

\* someone changes the labels drupalSite and app of a supporting resource
RelabelResource(kinds) ==
  /\ \E k \in kinds :
       /\ Exists(cluster, k)
       /\ IF k = "deploy_drupal"
            THEN /\ ~cluster.deploy.relabeled
                 /\ cluster' = [cluster EXCEPT !.deploy.relabeled = TRUE]
            ELSE /\ k \notin cluster.relabeled
                 /\ cluster' = [cluster EXCEPT !.relabeled = @ \cup {k}]
  /\ UNCHANGED site
  /\ Changed

\* an admin puts the annotation drupal.cern.ch/admin-custom-edit on a
\* supporting resource
AnnotateResource(kinds) ==
  /\ \E k \in kinds :
       /\ Exists(cluster, k)
       /\ k \notin cluster.admin
       /\ cluster' = [cluster EXCEPT !.admin = @ \cup {k}]
  /\ UNCHANGED site
  /\ Changed

\* someone deletes a supporting resource; the deletions are not counted
\* among the changes of a run
DeleteResource(kinds) ==
  /\ \E k \in kinds :
       /\ Exists(cluster, k)
       /\ cluster' = Removed(cluster, k)
  /\ UNCHANGED site
  /\ queued' = TRUE
  /\ hist' = [hist EXCEPT !.clean = FALSE]
  /\ last' = NoPass

\* the install job succeeds
InstallJobReports ==
  /\ "site_install_job" \in cluster.objs
  /\ ~cluster.installDone
  /\ cluster' = [cluster EXCEPT !.installDone = TRUE]
  /\ UNCHANGED site
  /\ Changed

Next ==
  \/ Reconcile(AllInputs)
  \/ EditSite({"version", "publish"})
  \/ DeleteSite
  \/ DeploymentReports
  \/ DatabaseReports
  \/ CloneJobReports

Spec == Init /\ [][Next]_vars

\* The same controller when a request of ensureResources to the API can fail:
\* in a pass, at most one of its calls, any of them. The pod of the release
\* runs, exec commands report nothing or fail in transport, no backup is
\* listed, and users edit spec.publish only.
FailureInputs ==
  [writes |-> WriteOutcomes, exec |-> {"empty", "transport"}, api |-> {"ok"},
   pods |-> {"Running"}, failing |-> ResourceKinds, backups |-> 0, strayPods |-> BOOLEAN,
   edits |-> {"publish"}]

NextFailures ==
  \/ Reconcile(FailureInputs)
  \/ EditSite({"publish"})
  \/ DeploymentReports
  \/ DatabaseReports

SpecFailures == Init /\ [][NextFailures]_vars

\* The same controller in an environment whose observations are stable: every
\* write succeeds, every exec command succeeds with nothing to report, the pod
\* of the release runs, no backup is listed. The Site and the cluster still
\* change MaxEnvChanges times at most, and a queued request is served.
StableInputs ==
  [writes |-> {"ok"}, exec |-> {"empty"}, api |-> {"ok"}, pods |-> {"Running"},
   failing |-> {}, backups |-> 0, strayPods |-> {TRUE}, edits |-> {}]

NextStable ==
  \/ Reconcile(StableInputs)
  \/ EditSite({"version", "publish"})
  \/ DeploymentReports
  \/ DatabaseReports

SpecStable == Init /\ [][NextStable]_vars /\ WF_vars(Reconcile(StableInputs))

\* The same controller when users rewrite the manifest of the Site: they make
\* the spec invalid and valid again, and they remove spec.siteURL. API calls
\* and writes can fail, exec commands succeed with nothing to report.
ManifestInputs ==
  [writes |-> WriteOutcomes, exec |-> {"empty"}, api |-> {"ok", "error"},
   pods |-> {"Running"}, failing |-> {}, backups |-> 0, strayPods |-> {TRUE}, edits |-> {"valid", "siteURL"}]

NextManifest ==
  \/ Reconcile(ManifestInputs)
  \/ EditSite({"valid", "siteURL"})
  \/ DeploymentReports
  \/ DatabaseReports

SpecManifest == Init /\ [][NextManifest]_vars

\* The same controller while a Site is installed or cloned: the install job
\* and the clone job report success, the Deployment's ready replicas come
\* and go, the status command in the pod succeeds or fails, writes can fail.
JobInputs ==
  [writes |-> WriteOutcomes, exec |-> {"empty", "transport", "stderr"}, api |-> {"ok"},
   pods |-> {"Running"}, failing |-> {}, backups |-> 0, strayPods |-> BOOLEAN, edits |-> {"publish"}]

NextJobs ==
  \/ Reconcile(JobInputs)
  \/ InstallJobReports
  \/ CloneJobReports
  \/ DeploymentReports
  \/ DatabaseReports

SpecJobs == Init /\ [][NextJobs]_vars

\* a version change whose rollout can fail, with passes in which the Get of the
\* Deployment in ensureResourceX("deploy_drupal") can return an error
LookupInputs ==
  [writes |-> {"ok"}, exec |-> {"empty"}, api |-> {"ok"}, pods |-> {"Running", "Failed"},
   failing |-> {"deploy_lookup"}, backups |-> 0, strayPods |-> {TRUE}, edits |-> {"version"}]

NextLookup ==
  \/ Reconcile(LookupInputs)
  \/ EditSite({"version"})
  \/ DeploymentReports
  \/ DatabaseReports

SpecLookup == Init /\ [][NextLookup]_vars

\* The same controller while a Site is installed or cloned and users rewrite
\* its manifest without spec.configuration.cloneFrom: every write and every
\* exec command succeeds, the list of production Sites is empty or not.
CloneInputs ==
  [writes |-> {"ok"}, exec |-> {"empty"}, api |-> {"ok"}, pods |-> {"Running"},
   failing |-> {}, backups |-> 0, strayPods |-> {TRUE}, edits |-> {"cloneFrom"}]

NextClone ==
  \/ Reconcile(CloneInputs)
  \/ EditSite({"cloneFrom"})
  \/ InstallJobReports
  \/ CloneJobReports
  \/ DeploymentReports
  \/ DatabaseReports

SpecClone == Init /\ [][NextClone]_vars

\* a Site that runs release 1 and is settled: installed and ready, its
\* resources ensured, the failsafe release set (a state the passes of Spec
\* reach from a new Site once the database and the Deployment have reported)
RunningSite ==
  [phase |-> "live", finalizer |-> TRUE, version |-> 1, publish |-> FALSE,
   valid |-> TRUE, extraRepo |-> FALSE, siteURL |-> TRUE, cloneFrom |-> "nothing",
   updateInProgress |-> FALSE,
   conds |-> [c \in CondNames |-> IF c \in {"Ready", "Initialized"}
                                    THEN [status |-> "True", reason |-> ""]
                                    ELSE NoCond],
   current |-> 1, failsafe |-> 1, backups |-> << >>]

RunningKinds == {"pvc_drupal", "dbod_cr", "webdav_secret", "svc_nginx", "site_install_job"}

RunningCluster ==
  [objs |-> RunningKinds \cup {"backup_schedule"}, cms |-> ConfigMapKinds,
   deploy |-> [exists |-> TRUE, rel |-> 1, ready |-> TRUE, hash |-> ConfigMapKinds,
               relabeled |-> FALSE, owners |-> 1],
   relabeled |-> {}, admin |-> {},
   owners |-> [k \in StoredKinds |-> IF k \in RunningKinds \cup ConfigMapKinds
                                       THEN 1 ELSE 0],
   dbodProvisioned |-> TRUE, cloneDone |-> FALSE, installDone |-> FALSE]

InitRunning ==
  /\ site = RunningSite
  /\ cluster = RunningCluster
  /\ last = NoPass
  /\ queued = FALSE
  /\ hist = [everPublished |-> FALSE, clean |-> TRUE, changes |-> 0]

\* version changes of a running Site whose rollout, cache reload, schema
\* check, backup and migration can fail
CatchUpInputs ==
  [writes |-> {"ok"}, exec |-> {"empty", "out", "transport"}, api |-> {"ok"},
   pods |-> {"Running", "Failed"}, failing |-> {}, backups |-> 0, strayPods |-> BOOLEAN, edits |-> {"version"}]

NextCatchUp ==
  \/ Reconcile(CatchUpInputs)
  \/ EditSite({"version"})
  \/ DeploymentReports

SpecCatchUp == InitRunning /\ [][NextCatchUp]_vars

\* version changes of a running Site whose migration can fail, where the only
\* pods are those of the Deployment's release and every pass that is queued
\* runs
RecoverInputs ==
  [writes |-> {"ok"}, exec |-> {"empty", "out", "stderr"}, api |-> {"ok"},
   pods |-> {"Running"}, failing |-> {}, backups |-> 0, strayPods |-> {FALSE},
   edits |-> {"version"}]

NextRecover ==
  \/ Reconcile(RecoverInputs)
  \/ EditSite({"version"})

SpecRecover == InitRunning /\ [][NextRecover]_vars /\ WF_vars(Reconcile(RecoverInputs))

\* a running Site whose version changes and whose rollout can fail, while the
\* Deployment can be deleted by someone else
RollbackInputs ==
  [writes |-> {"ok"}, exec |-> {"empty"}, api |-> {"ok"}, pods |-> {"Running", "Failed"},
   failing |-> {}, backups |-> 0, strayPods |-> {TRUE}, edits |-> {"version"}]

NextRollback ==
  \/ Reconcile(RollbackInputs)
  \/ EditSite({"version"})
  \/ DeleteResource({"deploy_drupal"})
  \/ DeploymentReports

SpecRollback == InitRunning /\ [][NextRollback]_vars

\* The same controller when the supporting resources are edited from outside:
\* the labels of the Service, of a ConfigMap, of the Deployment and of the
\* install Job are changed, and an admin annotates these resources. Users
\* edit spec.publish and spec.version, writes can conflict, exec commands
\* succeed with nothing to report or fail in transport.
TamperedKinds == {"svc_nginx", "cm_nginx", "deploy_drupal", "site_install_job"}

ResourceInputs ==
  [writes |-> WriteOutcomes, exec |-> {"empty", "transport"}, api |-> {"ok"},
   pods |-> {"Running"}, failing |-> {}, backups |-> 0, strayPods |-> BOOLEAN,
   edits |-> {"version", "publish"}]

NextResources ==
  \/ Reconcile(ResourceInputs)
  \/ RelabelResource(TamperedKinds)
  \/ AnnotateResource(TamperedKinds)
  \/ EditSite({"version", "publish"})
  \/ DeploymentReports
  \/ DatabaseReports

SpecResources == Init /\ [][NextResources]_vars

\* The same controller when supporting resources are deleted from outside,
\* in an environment without failures: every write succeeds, every exec
\* command that reaches a pod succeeds (the schema check may report pending
\* updates), the pod of the release runs. The Site is created unpublished,
\* with its URL, from no clone source; users edit spec.version, the
\* Deployment and the Service are deleted, and a queued request is served.
DeletedKinds == {"deploy_drupal", "svc_nginx"}

HealInputs ==
  [writes |-> {"ok"}, exec |-> {"empty", "out"}, api |-> {"ok"}, pods |-> {"Running"},
   failing |-> {}, backups |-> 0, strayPods |-> {TRUE}, edits |-> {"version"}]

NextHeal ==
  \/ Reconcile(HealInputs)
  \/ DeleteResource(DeletedKinds)
  \/ EditSite({"version"})
  \/ DeploymentReports
  \/ DatabaseReports

InitHeal ==
  /\ Init
  /\ site.siteURL /\ ~site.publish /\ site.cloneFrom = "nothing"

SpecHeal == InitHeal /\ [][NextHeal]_vars /\ WF_vars(Reconcile(HealInputs))

\* ------------------------------------------------------------ properties
\* the last pass did this step
InLog(e) == \E i \in DOMAIN last.log : last.log[i] = e
Execs(what) == {i \in DOMAIN last.log : last.log[i].op = "exec" /\ last.log[i].what = what}
Writes == {i \in DOMAIN last.log : last.log[i].op = "write"}

\* C1: after a pass that recorded a permanent failure of the code update
\* (CodeUpdateFailed set and the status written), CodeUpdateFailed is True on
\* the stored Site and the Deployment runs the failsafe release
RollbackSafety ==
  (InLog(L("cond", "CodeUpdateFailed", "True")) /\ InLog(L("write", "status", "ok")))
    => /\ ConditionTrue(site, "CodeUpdateFailed")
       /\ cluster.deploy.rel = site.failsafe

\* C2: status.releaseID.failsafe changes only to the value of
\* status.releaseID.current, and only when neither CodeUpdateFailed nor
\* DBUpdatesFailed is True
FailsafeMonotonicity ==
  [][site'.failsafe # site.failsafe
       => /\ site'.failsafe = site'.current
          /\ ~ConditionTrue(site', "CodeUpdateFailed")
          /\ ~ConditionTrue(site', "DBUpdatesFailed")]_vars

\* the failsafe moved on to a second release after an upgrade
FailsafeAdvanced ==
  /\ InLog(L("status", "failsafe", "set"))
  /\ InLog(L("write", "status", "ok"))
  /\ site.failsafe > 1

\* C3: a pass ensures an ingress resource only when it started from a stored
\* Site that is Initialized and published; while the Site is not Initialized,
\* or has never been published, no ingress resource exists
IngressGuard ==
  /\ last.ingress => (last.start.initialized /\ last.start.publish)
  /\ (~ConditionTrue(site, "Initialized") \/ ~hist.everPublished)
       => cluster.objs \cap IngressKinds = {}

\* a pass created the routes of an initialized, published Site
IngressCreated ==
  /\ last.ingress
  /\ "route" \in cluster.objs
  /\ ConditionTrue(site, "Initialized")

\* C4: the backup and the migration are executed only in a pass that started
\* from a stored Site with DBUpdatesPending True; the pass that sets
\* DBUpdatesPending executes neither and ends with the write of the status
DBUpdateOrdering ==
  /\ (Execs("takeBackup") \cup Execs("runUpDBCommand") # {}) => last.start.pending
  /\ InLog(L("cond", "DBUpdatesPending", "True"))
       => /\ Execs("takeBackup") \cup Execs("runUpDBCommand") = {}
          /\ ~last.start.pending
          /\ last.log[Len(last.log)].op = "write"

\* a pass ran the backup and the migration
MigrationRan ==
  /\ Execs("takeBackup") # {}
  /\ Execs("runUpDBCommand") # {}
  /\ last.start.pending

\* C5: a run of ensureResources that follows a run of ensureResources, with no
\* change of the Site or of the cluster in between, writes nothing
EnsureIdempotent ==
  (last.cleanAtStart /\ last.ensured) => ~last.ensureChanged

\* C7: a pass writes the Site at most once, and the write is its last step
PersistThenExit ==
  /\ Cardinality(Writes) <= 1
  /\ \A i \in Writes : i = Len(last.log)

\* a pass changed a condition, wrote the Site and ended
PersistedAndExited ==
  /\ Len(last.log) > 1
  /\ last.log[Len(last.log)] = L("write", "status", "ok")
  /\ InLog(L("cond", "Ready", "True"))

\* C8: a pass whose write of the Site met a conflict ends with Requeue and no
\* error
ConflictRequeues ==
  (\E i \in Writes : last.log[i].out = "conflict") => (last.requeue /\ ~last.err)

\* C9: a pass whose ensureResources returned errors ends with an error or with
\* Requeue
EnsureErrorsRetried ==
  last.ensureErrs => (last.requeue \/ last.err)

\* C10: no pass stores CodeUpdateFailed or DBUpdatesFailed as True that it set
\* right after an exec command of the update failed in transport
TransportFailureSetsNoCondition ==
  InLog(L("write", "status", "ok"))
    => \A i \in DOMAIN last.log :
         (i > 1 /\ last.log[i].op = "cond" /\ last.log[i].out = "True"
           /\ last.log[i].what \in {"CodeUpdateFailed", "DBUpdatesFailed"})
           => ~(last.log[i - 1].op = "exec" /\ last.log[i - 1].out = "transport")

\* C11: a pass that finds the spec invalid sets the Error condition, writes
\* the status and returns: after the defaulting step nothing else is done in
\* the pass; it asks for no requeue and returns no error unless the write
\* failed, and after a successful write the stored Site carries Error True
ValidationTerminal ==
  InLog(L("validate", "spec", "invalid"))
    => LET n == Len(last.log)
       IN /\ n >= 3
          /\ \A i \in 1..(n - 3) : last.log[i] = L("spec", "defaults", "set")
          /\ last.log[n - 2] = L("validate", "spec", "invalid")
          /\ last.log[n - 1] = L("cond", "Error", "True")
          /\ last.log[n].op = "write" /\ last.log[n].what = "status"
          /\ ~last.ensured
          /\ last.requeue => last.log[n].out = "conflict"
          /\ last.err => last.log[n].out = "error"
          /\ last.log[n].out = "ok"
               => site.conds["Error"] = [status |-> "True", reason |-> "ErrInvalidSpec"]

\* a pass found the spec invalid and stored the Error condition
InvalidRecorded ==
  /\ InLog(L("validate", "spec", "invalid"))
  /\ InLog(L("write", "status", "ok"))
  /\ ConditionTrue(site, "Error")
  /\ ~last.requeue /\ ~last.err

\* C12: a pass whose defaulting step changed a field of the Site writes the
\* Site and returns, with no later step taken on the changed Site
DefaultsDurable ==
  InLog(L("spec", "defaults", "set"))
    => /\ Len(last.log) = 2
       /\ last.log[2].op = "write" /\ last.log[2].what = "spec"

\* a pass is due to detect an upgrade: the stored Site is Ready and
\* Initialized, the Deployment runs another release than the spec asks for,
\* no update has failed and the annotation is absent
UpgradeDue ==
  /\ site.phase = "live" /\ site.finalizer /\ site.valid
  /\ ConditionTrue(site, "Ready") /\ ConditionTrue(site, "Initialized")
  /\ cluster.deploy.exists /\ cluster.deploy.rel # releaseID(site)
  /\ ~ConditionTrue(site, "CodeUpdateFailed") /\ ~ConditionTrue(site, "DBUpdatesFailed")
  /\ ~site.updateInProgress

\* the last pass set the annotation, wrote the Site and did nothing else
UpgradeFlagged ==
  /\ Len(last.log) = 2
  /\ last.log[1] = L("annotation", "updateInProgress", "set")
  /\ last.log[2].op = "write" /\ last.log[2].what = "spec"
  /\ ~last.ensured
  /\ last.log[2].out = "ok" => site.updateInProgress

\* what the steps of a pass before the upgrade check log: the fetch of the
\* Site, the cleanup, defaults, validation, the conditions and the release
\* of the status, the check for pending DB updates, the read of the Deployment
EarlierSteps == {"get", "delete", "spec", "validate", "cond", "status", "exec"}

\* C13 as stated: every pass that starts with an upgrade due sets the
\* annotation, writes the Site and exits
UpgradeDetectedInEveryPass ==
  [][(UpgradeDue /\ last'.log # <<>>) => UpgradeFlagged']_vars

\* C13: a pass that starts with an upgrade due, whose earlier steps neither
\* change nor fail anything and which reads the Deployment, sets the
\* annotation, writes the Site and exits without ensureResources or a
\* workflow step
UpgradeDetected ==
  [][(UpgradeDue /\ last'.log # <<>> /\ last'.log[1].op \notin EarlierSteps)
       => UpgradeFlagged']_vars

\* a pass detected an upgrade and stored the annotation
UpgradeStarted ==
  /\ UpgradeFlagged
  /\ last.log[2].out = "ok"
  /\ last.start.initialized
  /\ cluster.deploy.rel # releaseID(site)

\* C14: once the spec asks for another release than the Deployment runs while
\* the Site is Ready and Initialized, the status eventually holds an
\* UpdateNeeded condition that is True or Unknown
UpdateNeededReported ==
  (/\ site.phase = "live"
   /\ ConditionTrue(site, "Ready") /\ ConditionTrue(site, "Initialized")
   /\ cluster.deploy.exists /\ cluster.deploy.rel # releaseID(site))
    ~> (site.conds["UpdateNeeded"].status \in {"True", "Unknown"})

\* the last pass removed the annotation
AnnotationUnset == InLog(L("annotation", "updateInProgress", "unset"))

\* the last pass reloaded the cache on the new release: the code update succeeded
CodeUpdateSucceeded == \E i \in Execs("cacheReload") : last.log[i].out = "empty"

\* the last pass found no pending DB update
NoDBUpdateFound == \E i \in Execs("checkUpdbStatus") : last.log[i].out = "empty"

\* the last pass ran ensureResources without an error: it reached the workflows
WorkflowsReached == last.ensured /\ ~last.ensureErrs

\* the last pass removed the annotation as its last change, wrote the Site
\* and nothing else, and asked for a requeue only because of a conflict
UnsetAndWritten ==
  LET n == Len(last.log)
  IN /\ n >= 2
     /\ last.log[n - 1] = L("annotation", "updateInProgress", "unset")
     /\ last.log[n].op = "write" /\ last.log[n].what = "spec"
     /\ Cardinality(Writes) = 1
     /\ ~last.err \/ last.log[n].out = "error"
     /\ last.requeue => last.log[n].out = "conflict"

\* C15 as stated: the annotation is removed in a pass exactly when the code
\* update succeeded in the pass or CodeUpdateFailed is True, and the check
\* found no pending DB update with DBUpdatesPending not set or
\* DBUpdatesFailed is True
AnnotationRemovedAsStated ==
  [][LET codeDone == CodeUpdateSucceeded' \/ ConditionTrue(site, "CodeUpdateFailed")
         dbDone == \/ NoDBUpdateFound' /\ ~ConditionTrue(site, "DBUpdatesPending")
                   \/ ConditionTrue(site, "DBUpdatesFailed")
     IN /\ AnnotationUnset' => (codeDone /\ dbDone /\ UnsetAndWritten')
        /\ (site.updateInProgress /\ WorkflowsReached' /\ codeDone /\ dbDone)
             => AnnotationUnset']_vars

\* C15: the annotation is removed in a pass exactly when the pass reaches
\* the workflows and both have nothing left to do: the code update succeeded
\* in the pass or is skipped because CodeUpdateFailed or DBUpdatesPending is
\* True, and the check found no pending DB update with DBUpdatesPending not
\* set or the DB update is skipped because DBUpdatesFailed or
\* CodeUpdateFailed is True; the removal is the only change the pass stores
AnnotationRemovedWhenQuiesced ==
  [][LET codeDone == \/ CodeUpdateSucceeded'
                     \/ ConditionTrue(site, "CodeUpdateFailed")
                     \/ ConditionTrue(site, "DBUpdatesPending")
         dbDone == \/ NoDBUpdateFound' /\ ~ConditionTrue(site, "DBUpdatesPending")
                   \/ ConditionTrue(site, "DBUpdatesFailed")
                   \/ ConditionTrue(site, "CodeUpdateFailed")
     IN /\ AnnotationUnset'
             => (site.updateInProgress /\ WorkflowsReached' /\ codeDone /\ dbDone
                 /\ UnsetAndWritten')
        /\ (site.updateInProgress /\ WorkflowsReached' /\ codeDone /\ dbDone)
             => AnnotationUnset']_vars

\* a pass finished an update: the code update and the DB check succeeded and
\* the Site is stored without the annotation
UpdateFinished ==
  /\ AnnotationUnset /\ UnsetAndWritten
  /\ CodeUpdateSucceeded /\ NoDBUpdateFound
  /\ last.log[Len(last.log)].out = "ok"
  /\ ~site.updateInProgress

\* C16: after a pass that ran ensureResources without an error for a Site
\* that is not published, none of the Site's ingress resources exists
UnpublishRemovesIngress ==
  (last.ensured /\ ~last.ensureErrs /\ ~last.start.publish)
    => cluster.objs \cap IngressKinds = {}

\* C17: a supporting resource that carries the annotation
\* drupal.cern.ch/admin-custom-edit keeps a label value set on it from
\* outside: no step, and so no reconcile pass, overwrites it while the
\* resource exists.
AdminOverrideKeepsLabels ==
  [][\A k \in ResourceKinds :
       (k \in cluster.admin /\ Relabeled(cluster, k) /\ Exists(cluster', k))
         => Relabeled(cluster', k)]_vars

\* the resources every run of ensureResources applies when no API call fails
AlwaysEnsured == {"pvc_drupal", "dbod_cr", "webdav_secret", "svc_nginx"}

AppliedBy(p, k) ==
  \/ k \in p.applied
  \/ /\ k = "deploy_drupal"
     /\ \E i \in DOMAIN p.log : p.log[i].op = "deploy" /\ p.log[i].out = "ok"

Wanted(k) ==
  CASE k = "deploy_drupal" -> isDBODProvisioned(cluster)
    [] k = "site_install_job" -> isDBODProvisioned(cluster) /\ site.cloneFrom = "nothing"
    [] OTHER -> TRUE

\* a supporting resource of the live Site that ensureResources applies is
\* missing
Missing ==
  /\ site.phase = "live"
  /\ \E k \in DeletedKinds : ~Exists(cluster, k) /\ Wanted(k)

\* C19: when a supporting resource of a live Site is missing (the Service,
\* or the Deployment once the database is provisioned), then later, every
\* queued request being served, none is missing.
SelfHealing == Missing ~> ~Missing

\* the number of owner references of the resource of this kind
Owners(cl, k) == IF k = "deploy_drupal" THEN cl.deploy.owners ELSE cl.owners[k]

\* C20: every supporting resource that exists in the namespace of the Site
\* carries exactly one owner reference, that of the Site, however many
\* passes have applied it; the velero Schedule, which is not in that
\* namespace, carries none.
OneOwnerReference ==
  \A k \in ResourceKinds :
    Exists(cluster, k) => Owners(cluster, k) = (IF k \in OwnedKinds THEN 1 ELSE 0)

\* the last pass applied resources that an earlier pass had applied with
\* nothing left to change, the Service and the Deployment among them, and
\* the Schedule exists
OwnedAfterUpdate ==
  /\ last.ensured /\ ~last.ensureErrs /\ last.cleanAtStart
  /\ Exists(cluster, "svc_nginx")
  /\ Exists(cluster, "deploy_drupal")
  /\ Exists(cluster, "backup_schedule")

\* C21: in a pass for a Site marked for deletion that carries the finalizer,
\* the finalizer is removed from the stored Site only after the Schedule was
\* deleted or found absent (the lookup and the delete precede the write, and
\* no Schedule is left); when the lookup or the delete fails, the stored
\* Site is unchanged and the pass returns the error.
FinalizerGatedCleanup ==
  [][(site.phase = "deleting" /\ site.finalizer)
       => /\ (site'.phase = "gone" \/ ~site'.finalizer)
               => /\ Len(last'.log) >= 2
                  /\ last'.log[Len(last'.log) - 1] = L("delete", "backup_schedule", "ok")
                  /\ last'.log[Len(last'.log)] = L("write", "spec", "ok")
                  /\ ~Exists(cluster', "backup_schedule")
          /\ (\E i \in DOMAIN last'.log : last'.log[i] = L("delete", "backup_schedule", "error"))
               => site' = site /\ last'.err /\ Exists(cluster', "backup_schedule") = Exists(cluster, "backup_schedule")]_vars

\* the Site is gone after a pass that deleted the Schedule of an initialized,
\* ready Site and then removed the finalizer
FinalizerRemoved ==
  /\ site.phase = "gone"
  /\ ConditionTrue(site, "Initialized") /\ ConditionTrue(site, "Ready")
  /\ InLog(L("delete", "backup_schedule", "ok"))
  /\ InLog(L("write", "spec", "ok"))

\* C22: after a pass that evaluated the conditions (it went on to
\* ensureResources) while the install job or the clone job of the Site had
\* succeeded, Initialized is True in what the pass computed: it was True
\* at the start or the pass set it, whatever the Deployment's ready replicas
\* and the status command say.
InitializedWhenJobSucceeded ==
  (last.ensured /\ (isInstallJobCompleted(cluster) \/ isCloneJobCompleted(cluster)))
    => (last.start.initialized \/ InLog(L("cond", "Initialized", "True")))

\* C23: after a pass that reached the backup step, listed the completed
\* backups of the Site and met no failing write, status.availableBackups
\* names exactly the completed backups, also when none is left.
BackupListSynchronized ==
  \A l \in BackupLists(MaxBackups) :
    (InLog(L("list", "backups", BackupsFound(l)))
     /\ \A i \in Writes : last.log[i].out = "ok")
      => site.backups = updateBackupListStatus(l)

\* C24: in the code update, when the converge call created or updated the
\* Deployment the pass ends there asking for a requeue without an error, with
\* no rollout check, cache reload, rollback or change of the stored Site; the
\* rollout is checked only right after a converge call that changed nothing.
RequeueAfterConverge ==
  [][\A i \in DOMAIN last'.log :
       /\ (last'.log[i].op = "deploy" /\ last'.log[i].what = "result"
              /\ last'.log[i].out # "unchanged")
            => (i = Len(last'.log) /\ last'.requeue /\ ~last'.err /\ site' = site)
       /\ (last'.log[i].op = "pods")
            => (i > 1 /\ last'.log[i - 1] = L("deploy", "result", "unchanged"))]_vars

\* C24 witness: a pass whose converge call updated an existing Deployment
\* ended with a requeue and no error.
ConvergeRequeued ==
  /\ last.log # << >>
  /\ last.log[Len(last.log)] = L("deploy", "result", "updated")
  /\ last.requeue
  /\ ~last.err

\* C25: in the code update, a pod of the desired release that is Pending and
\* younger than 3 minutes ends the pass with a requeue request (here the
\* returned error), without a rollback and with the stored Site, so
\* CodeUpdateFailed, unchanged; a pod Pending for longer is followed by the
\* rollback of the Deployment to the failsafe release and, when that and the
\* status write succeed, by CodeUpdateFailed=True in the stored Site.
RolloutGracePeriod ==
  [][\A i \in DOMAIN last'.log :
       /\ (last'.log[i] = L("pods", "rollout", "PendingYoung"))
            => /\ i = Len(last'.log)
               /\ (last'.requeue \/ last'.err)
               /\ site' = site
               /\ cluster'.deploy.rel = cluster.deploy.rel
       /\ (last'.log[i] = L("pods", "rollout", "PendingOld"))
            => /\ i < Len(last'.log)
               /\ last'.log[i + 1].op = "deploy"
               /\ last'.log[i + 1].what = "rollback"
               /\ (last'.log[i + 1].out = "ok")
                    => /\ cluster'.deploy.rel = site.failsafe
                       /\ i + 3 = Len(last'.log)
                       /\ last'.log[i + 2] = L("cond", "CodeUpdateFailed", "True")
                       /\ last'.log[i + 3].op = "write"
                       /\ (last'.log[i + 3].out = "ok")
                            => ConditionTrue(site', "CodeUpdateFailed")]_vars

\* C25 witness: a pass ended on a young Pending pod, with the error that
\* requeues it.
YoungPendingPodRequeued ==
  /\ last.log # << >>
  /\ last.log[Len(last.log)] = L("pods", "rollout", "PendingYoung")
  /\ last.err
  /\ ~ConditionTrue(site, "CodeUpdateFailed")

\* C26: in the code update, when listing the pods fails, no pod is listed or
\* none of the listed pods carries the desired release, the pass ends there
\* with an error (requeue with backoff): the stored Site, so every condition,
\* and the release of the Deployment are unchanged and no cache reload runs.
NoPodIsTemporary ==
  [][\A i \in DOMAIN last'.log :
       (last'.log[i].op = "pods"
          /\ last'.log[i].out \in {"listError", "noPod", "otherRelease"})
        => /\ i = Len(last'.log)
           /\ last'.err
           /\ site' = site
           /\ cluster'.deploy.rel = cluster.deploy.rel
           /\ \A j \in DOMAIN last'.log :
                ~(last'.log[j].op = "exec" /\ last'.log[j].what = "cacheReload")]_vars

\* C26 witness: a pass ended with an error on finding only pods of another
\* release.
NoPodOfReleaseRequeued ==
  /\ last.log # << >>
  /\ last.log[Len(last.log)] = L("pods", "rollout", "otherRelease")
  /\ last.err

\* C27: a pass of the code update whose cache reload failed twice (transport
\* error or output on stderr) ends with a requeue request, no rollback and no
\* CodeUpdateFailed set.
CacheReloadFailureRequeues ==
  \A i \in DOMAIN last.log :
    (/\ i + 1 \in DOMAIN last.log
     /\ last.log[i].op = "exec" /\ last.log[i].what = "cacheReload"
     /\ ExecFailed(last.log[i].out)
     /\ last.log[i + 1].op = "exec" /\ last.log[i + 1].what = "cacheReload"
     /\ ExecFailed(last.log[i + 1].out))
    => /\ (last.requeue \/ last.err)
       /\ ~InLog(L("cond", "CodeUpdateFailed", "True"))
       /\ \A j \in DOMAIN last.log :
            ~(last.log[j].op = "deploy" /\ last.log[j].what = "rollback")

\* C28: a pass that starts with CodeUpdateFailed=True stored neither sets the
\* updateInProgress annotation nor calls the converge of the code update on
\* the Deployment.
NoRetryAfterCodeUpdateFailed ==
  [][(ConditionTrue(site, "CodeUpdateFailed") /\ last'.log # << >>)
       => /\ (site'.updateInProgress => site.updateInProgress)
          /\ \A i \in DOMAIN last'.log :
               /\ last'.log[i] # L("annotation", "updateInProgress", "set")
               /\ ~(last'.log[i].op = "deploy" /\ last'.log[i].what = "update")]_vars

\* C28 witness: a pass that started with CodeUpdateFailed=True, in an update
\* to a release other than the failsafe one, went as far as ensuring the
\* resources and left the condition True.
FailedCodeUpdateLeftAlone ==
  /\ ConditionTrue(site, "CodeUpdateFailed")
  /\ site.updateInProgress
  /\ site.failsafe # releaseID(site)
  /\ last.ensured
  /\ ~InLog(L("cond", "CodeUpdateFailed", "True"))

\* C29: in a pass of the DB update the migration command comes right after
\* a backup command that succeeded; a failed backup is followed by
\* DBUpdatesFailed=True and the status write that ends the pass (the condition
\* is stored when the write succeeds), with no migration and no restore.
BackupPrecedesMigration ==
  \A i \in DOMAIN last.log :
    /\ (last.log[i].op = "exec" /\ last.log[i].what = "runUpDBCommand")
         => /\ i > 1
            /\ last.log[i - 1].op = "exec"
            /\ last.log[i - 1].what = "takeBackup"
            /\ ~ExecFailed(last.log[i - 1].out)
    /\ (last.log[i].op = "exec" /\ last.log[i].what = "takeBackup"
          /\ ExecFailed(last.log[i].out))
         => /\ i + 2 = Len(last.log)
            /\ last.log[i + 1] = L("cond", "DBUpdatesFailed", "True")
            /\ last.log[i + 2].op = "write"
            /\ last.log[i + 2].what = "status"
            /\ (last.log[i + 2].out = "ok") => ConditionTrue(site, "DBUpdatesFailed")
            /\ \A j \in DOMAIN last.log :
                 ~(last.log[j].op = "exec"
                     /\ last.log[j].what \in {"runUpDBCommand", "restoreBackup"})

\* C29 witness: a pass whose backup failed stored DBUpdatesFailed=True.
FailedBackupStored ==
  /\ \E i \in DOMAIN last.log :
       /\ last.log[i].op = "exec" /\ last.log[i].what = "takeBackup"
       /\ ExecFailed(last.log[i].out)
  /\ InLog(L("write", "status", "ok"))
  /\ ConditionTrue(site, "DBUpdatesFailed")

\* C30: a failed migration command is followed in its pass by exactly one
\* restore command, then by DBUpdatesFailed=True and the status write that
\* ends the pass, whatever the restore returned; the condition is stored when
\* the write succeeds.
RestoreOnceThenFailed ==
  \A i \in DOMAIN last.log :
    (last.log[i].op = "exec" /\ last.log[i].what = "runUpDBCommand"
       /\ ExecFailed(last.log[i].out))
    => /\ i + 3 = Len(last.log)
       /\ last.log[i + 1].op = "exec"
       /\ last.log[i + 1].what = "restoreBackup"
       /\ Cardinality({j \in DOMAIN last.log : last.log[j].op = "exec"
                                                /\ last.log[j].what = "restoreBackup"}) = 1
       /\ last.log[i + 2] = L("cond", "DBUpdatesFailed", "True")
       /\ last.log[i + 3].op = "write"
       /\ last.log[i + 3].what = "status"
       /\ (last.log[i + 3].out = "ok") => ConditionTrue(site, "DBUpdatesFailed")

\* C30 witness: a pass whose migration failed and whose restore failed too
\* stored DBUpdatesFailed=True.
FailedRestoreStored ==
  /\ \E i \in DOMAIN last.log :
       /\ last.log[i].op = "exec" /\ last.log[i].what = "restoreBackup"
       /\ ExecFailed(last.log[i].out)
  /\ InLog(L("write", "status", "ok"))
  /\ ConditionTrue(site, "DBUpdatesFailed")

\* C31: a pass whose schema check (checkUpdbStatus) failed at transport level
\* ends with a requeue request, an error or Requeue=true.
SchemaCheckFailureRequeues ==
  InLog(L("exec", "checkUpdbStatus", "transport")) => (last.requeue \/ last.err)

\* C32: a pass that starts with DBUpdatesFailed=True stored issues no schema
\* check (checkUpdbStatus) and leaves DBUpdatesPending as it was.
NoSchemaCheckWhileFailed ==
  [][(ConditionTrue(site, "DBUpdatesFailed") /\ last'.log # << >>)
       => /\ site'.conds["DBUpdatesPending"] = site.conds["DBUpdatesPending"]
          /\ \A i \in DOMAIN last'.log :
               ~(last'.log[i].op = "exec" /\ last'.log[i].what = "checkUpdbStatus")]_vars

\* C32 witness: a pass that started with DBUpdatesFailed=True and
\* DBUpdatesPending=True went as far as ensuring the resources and left both.
PendingKeptWhileFailed ==
  /\ ConditionTrue(site, "DBUpdatesFailed")
  /\ ConditionTrue(site, "DBUpdatesPending")
  /\ last.ensured
  /\ ~InLog(L("cond", "DBUpdatesFailed", "True"))

\* C33: while the Deployment exists and the Site has updateInProgress set or
\* CodeUpdateFailed or DBUpdatesFailed True, a pass that ensures the resources
\* and runs neither the converge of the code update nor a rollback leaves the
\* release of the Deployment unchanged.
EnsureKeepsRelease ==
  [][(/\ cluster.deploy.exists
      /\ \/ site.updateInProgress
         \/ ConditionTrue(site, "CodeUpdateFailed")
         \/ ConditionTrue(site, "DBUpdatesFailed")
      /\ last'.ensured
      /\ \A i \in DOMAIN last'.log : last'.log[i].op # "deploy")
       => cluster'.deploy.rel = cluster.deploy.rel]_vars

\* C34: CodeUpdateFailed and DBUpdatesFailed stop being True in the stored
\* Site only in a pass that started with the failsafe release equal to the
\* desired one and removed them in its condition evaluation; a pass that
\* removes one and writes the status stores it removed; and a pass that starts
\* with the two releases equal and a failure condition True does not go on to
\* ensure the resources.
FailuresClearedByCatchingUp ==
  [][\A f \in {"CodeUpdateFailed", "DBUpdatesFailed"} :
       /\ (ConditionTrue(site, f) /\ ~ConditionTrue(site', f))
            => /\ site.failsafe = releaseID(site)
               /\ \E i \in DOMAIN last'.log : last'.log[i] = L("cond", f, "removed")
       /\ (\E i \in DOMAIN last'.log : last'.log[i] = L("cond", f, "removed"))
            => /\ ConditionTrue(site, f)
               /\ site.failsafe = releaseID(site)
               /\ last'.log[Len(last'.log)].op = "write"
               /\ (last'.log[Len(last'.log)].out = "ok") => ~ConditionTrue(site', f)
       /\ (ConditionTrue(site, f) /\ site.failsafe = releaseID(site) /\ last'.log # << >>)
            => ~last'.ensured]_vars

\* the settled running Site is a state the controller reaches from a new Site
RunningSiteReached == site = RunningSite /\ cluster = RunningCluster /\ ~queued

\* C34 witness: a pass removed CodeUpdateFailed from the stored Site, whose
\* failsafe release is the desired one.
CodeUpdateFailureCleared ==
  /\ InLog(L("cond", "CodeUpdateFailed", "removed"))
  /\ InLog(L("write", "status", "ok"))
  /\ ~ConditionTrue(site, "CodeUpdateFailed")
  /\ site.failsafe = releaseID(site)

\* C35, as stated: whenever a schema check of a pass succeeded and reported
\* pending migrations, and the writes of the pass succeeded, DBUpdatesPending
\* is True in the stored Site after the pass.
PendingAfterSchemaCheck ==
  (InLog(L("exec", "checkUpdbStatus", "out")) /\ \A i \in Writes : last.log[i].out = "ok")
    => ConditionTrue(site, "DBUpdatesPending")

\* C35, amended: after such a pass DBUpdatesPending is True in the stored Site
\* unless a later step of the same pass removed it; a removal comes right
\* after a schema check that reported nothing pending or after a migration
\* command that succeeded; and DBUpdatesFailed is never True without
\* DBUpdatesPending.
PendingUnlessRemovedLater ==
  /\ (InLog(L("exec", "checkUpdbStatus", "out")) /\ \A i \in Writes : last.log[i].out = "ok")
       => (ConditionTrue(site, "DBUpdatesPending")
             <=> ~InLog(L("cond", "DBUpdatesPending", "removed")))
  /\ \A i \in DOMAIN last.log :
       (last.log[i] = L("cond", "DBUpdatesPending", "removed"))
         => /\ i > 1
            /\ last.log[i - 1] \in {L("exec", "checkUpdbStatus", "empty"),
                                    L("exec", "runUpDBCommand", "empty")}
  /\ ConditionTrue(site, "DBUpdatesFailed") => ConditionTrue(site, "DBUpdatesPending")

\* C35 witness: a pass whose schema check reported pending migrations set
\* DBUpdatesPending and stored it.
PendingSetAfterSchemaCheck ==
  /\ InLog(L("exec", "checkUpdbStatus", "out"))
  /\ InLog(L("cond", "DBUpdatesPending", "True"))
  /\ InLog(L("write", "status", "ok"))
  /\ ConditionTrue(site, "DBUpdatesPending")

\* C36: in every stored status DBUpdatesFailed=True implies
\* DBUpdatesPending=True: DBUpdatesFailed becomes True only in a Site whose
\* DBUpdatesPending was True already, and DBUpdatesPending stops being True
\* only while DBUpdatesFailed is not True.
FailedImpliesPending ==
  [][/\ ConditionTrue(site', "DBUpdatesFailed") => ConditionTrue(site', "DBUpdatesPending")
     /\ (~ConditionTrue(site, "DBUpdatesFailed") /\ ConditionTrue(site', "DBUpdatesFailed"))
          => ConditionTrue(site, "DBUpdatesPending")
     /\ (ConditionTrue(site, "DBUpdatesPending") /\ ~ConditionTrue(site', "DBUpdatesPending"))
          => ~ConditionTrue(site, "DBUpdatesFailed")]_vars

\* C36 witness: a failed migration left DBUpdatesFailed and DBUpdatesPending
\* True in the stored Site.
FailedAndPending ==
  /\ InLog(L("cond", "DBUpdatesFailed", "True"))
  /\ InLog(L("exec", "runUpDBCommand", "transport"))
  /\ ConditionTrue(site, "DBUpdatesFailed")
  /\ ConditionTrue(site, "DBUpdatesPending")

\* C37: from the state a failed migration leaves (DBUpdatesFailed and
\* DBUpdatesPending True, the Deployment at the new release) with the version
\* set back to the failsafe release, the passes lead to the Deployment at the
\* failsafe release with neither condition True, unless the version is changed
\* again or a command of a later pass writes to stderr.
RecoveryAfterFailedDBUpdate ==
  (/\ ConditionTrue(site, "DBUpdatesFailed")
   /\ ConditionTrue(site, "DBUpdatesPending")
   /\ site.version = site.failsafe
   /\ cluster.deploy.exists
   /\ cluster.deploy.rel # site.failsafe)
    ~> (\/ /\ cluster.deploy.rel = site.failsafe
           /\ ~ConditionTrue(site, "DBUpdatesFailed")
           /\ ~ConditionTrue(site, "DBUpdatesPending")
        \/ site.version # site.failsafe
        \/ \E i \in DOMAIN last.log : last.log[i].out = "stderr")

\* C38: whenever CodeUpdateFailed is True and the Deployment exists, the
\* Deployment is at the failsafe release, also after it was deleted and
\* created again by ensureResources.
RollbackStable ==
  (ConditionTrue(site, "CodeUpdateFailed") /\ cluster.deploy.exists)
    => cluster.deploy.rel = site.failsafe

\* the clone Job and the site-install Job of the Site never exist together
InstallXorClone ==
  ~("clone_job" \in cluster.objs /\ "site_install_job" \in cluster.objs)

\* C39: install and clone are mutually exclusive over the lifetime of a Site:
\* for a Site whose stored cloneFrom is empty and whose clone Job was ensured
\* before Initialized became True, no pass after Initialized is True ensures
\* the site-install Job
JobChoiceSurvivesInitialized ==
  [][(/\ site.cloneFrom = "" /\ site'.cloneFrom = ""
      /\ ConditionTrue(site, "Initialized")
      /\ "clone_job" \in cluster.objs
      /\ "site_install_job" \notin cluster.objs)
       => "site_install_job" \notin cluster'.objs]_vars

\* C40: the Error condition is write-once: no step removes it or sets it to
\* False, so once Error is True it is True in every later state, also after
\* the spec was corrected and passes validate it successfully
ErrorIsWriteOnce ==
  [][ConditionTrue(site, "Error") => ConditionTrue(site', "Error")]_vars

\* a pass validated the corrected spec, ran ensureResources, and Error is
\* still True
ErrorKeptAfterCorrection ==
  /\ ConditionTrue(site, "Error")
  /\ site.valid
  /\ last.ensured
  /\ Len(last.log) > 0 /\ last.log[Len(last.log)] = L("write", "status", "ok")

\* C6: once the Site and the observations stop changing, the passes reach a
\* fixed point: from some pass on, no pass writes the Site or a resource
Convergence == <>[][site' = site /\ cluster' = cluster]_vars

====
